---- MODULE Spec2Model ----
(***************************************************************************)
(* Order workflow of the food-delivery backend: checkout-session creation, *)
(* the payment webhook and the owner's order-status update                 *)
(* (src/src/controllers/OrderController.ts, src/unnamed/part_000).         *)
(*                                                                         *)
(* Every handler is an async function: it runs synchronously up to an      *)
(* await, and other requests may run while it waits.  Each action below is *)
(* the code of one handler between two awaits; the await's result (a       *)
(* database read, the gateway's answer, a committed save) is taken at the  *)
(* start of the action that continues after it.                            *)
(*                                                                         *)
(* Database operations are taken to succeed and ids to be well formed: the *)
(* database and its driver are external collaborators.  What the calls do  *)
(* (findById, save, constructEvent) is taken from the libraries' behaviour. *)
(***************************************************************************)
EXTENDS Integers, Sequences, FiniteSets, TLC

\* ------------------------------------------------------------------ bounds
\* Requests the process receives in one behaviour; all of them may be in
\* flight at the same time.
MaxRequests == 3
\* Longest cart of a checkout request of SpecCheckout.
MaxCartLen == 2

\* ------------------------------------------------------------- value sets
\* Authenticated identities (req.userId, set by jwtParse).
Users == {"u1", "u2"}

\* The identity of the checkout requests of Spec.
Customers == {"u2"}

\* Restaurant ids a request may name; "r9" is the id of no restaurant.
RestaurantIds == {"r1", "r9"}

\* A menu item: _id, name, price (MenuItemType).
Menu1 ==
    << [_id |-> "m1", name |-> "Pizza", price |-> 500],
       [_id |-> "m2", name |-> "Soda",  price |-> 150] >>

\* The restaurant collection the process starts with: "r1", owned by "u1".
InitialRestaurants ==
    [r \in {"r1"} |-> [user |-> "u1", deliveryPrice |-> 300, menuItems |-> Menu1]]

\* Cart lines of a CheckoutSessionRequest: menuItemId, name, quantity.  The
\* quantity is a string, here the sequence of its characters.  The name sent
\* with a line need not be the menu item's name; "m9" is on no menu.
LinePizza == [menuItemId |-> "m1", name |-> "Fake", quantity |-> <<"2">>]
LineSoda == [menuItemId |-> "m2", name |-> "Soda", quantity |-> <<"1", "0">>]
LineSodaX == [menuItemId |-> "m2", name |-> "Soda", quantity |-> <<"3", "x">>]
LineGhost == [menuItemId |-> "m9", name |-> "Ghost", quantity |-> <<"1">>]

CartLines == {LinePizza, LineSoda, LineSodaX, LineGhost}

RECURSIVE SeqsUpTo(_, _)
SeqsUpTo(S, n) ==
    IF n = 0 THEN {<< >>}
    ELSE LET shorter == SeqsUpTo(S, n - 1)
         IN  shorter \cup {Append(q, x) : q \in {p \in shorter : Len(p) = n - 1}, x \in S}

\* The carts of the requests of SpecCheckout.
Carts == SeqsUpTo(CartLines, MaxCartLen)

\* The carts of the requests of Spec: one that resolves, one that does not.
CheckoutCarts == { <<LinePizza, LineSoda>>, <<LinePizza, LineGhost>> }

DeliveryDetails == {"d1"}

\* ------------------------------------------------------------------ state
VARIABLES
    orders,       \* the Order collection: persisted order id -> document
    restaurants,  \* the Restaurant collection: restaurant id -> document
    calls,        \* the session-create requests sent to the gateway, in order
    nextId,       \* the next fresh Order _id
    reqs          \* the requests received, in order of arrival: what each
                  \* asked, where its handler stands, what it answered

vars == <<orders, restaurants, calls, nextId, reqs>>

\* totalAmount of an order the webhook has not yet confirmed.
Unset == [set |-> FALSE, val |-> 0]
Amount(n) == [set |-> TRUE, val |-> n]

NoOrder ==
    [restaurant |-> "", user |-> "", status |-> "", deliveryDetails |-> "",
     cartItems |-> << >>, totalAmount |-> Unset]

NoResponse == [code |-> 0, body |-> "", url |-> FALSE]
Response(code, body) == [code |-> code, body |-> body, url |-> FALSE]

NoEvent == [verified |-> FALSE, type |-> "", orderId |-> 0, amount_total |-> 0]

\* req.body of a request that is no restaurant create request.
NoBody == [deliveryPrice |-> 0, menuItems |-> << >>]

Idle ==
    [kind |-> "none", pc |-> "idle", userId |-> "", restaurantId |-> "",
     cartItems |-> << >>, orderId |-> 0, order |-> NoOrder, found |-> FALSE,
     status |-> "", event |-> NoEvent, call |-> 0, lookedUp |-> FALSE,
     saved |-> FALSE, resp |-> NoResponse, body |-> NoBody]

\* Request numbers: request s is the s-th to arrive.
Slots == 1..MaxRequests

\* The next request to arrive is request s.
Free(s) == s = Len(reqs) + 1

Finished(s) == reqs[s].pc \in {"done", "unhandled"}

\* reqs with request r appended.
Arrive(r) == Append(reqs, r)

\* Order ids a request may name: the ids allocated so far and one id that no
\* order has.
OrderIds == 1..nextId

\* Order.findById / Restaurant.findById: whether the id resolves.
OrderExists(id) == id \in DOMAIN orders
RestaurantExists(id) == id \in DOMAIN restaurants

\* ---------------------------------------------------- createLineItems
Digits == <<"0", "1", "2", "3", "4", "5", "6", "7", "8", "9">>
IsDigit(c) == \E d \in 1..10 : Digits[d] = c
DigitValue(c) == (CHOOSE d \in 1..10 : Digits[d] = c) - 1

\* parseInt(string): the integer spelt by the longest prefix of digits, NaN
\* when the string starts with no digit.
RECURSIVE ParseDigits(_, _, _)
ParseDigits(str, i, acc) ==
    IF i > Len(str) \/ ~IsDigit(str[i]) THEN acc
    ELSE ParseDigits(str, i + 1, acc * 10 + DigitValue(str[i]))

parseInt(str) ==
    IF Len(str) = 0 \/ ~IsDigit(str[1])
    THEN [nan |-> TRUE, val |-> 0]
    ELSE [nan |-> FALSE, val |-> ParseDigits(str, 1, 0)]

\* menuItems.find(item => item._id.toString() === cartItem.menuItemId.toString()):
\* the index of the first menu item with that id, 0 when there is none.
FindMenuItem(menuItems, menuItemId) ==
    IF \E i \in 1..Len(menuItems) : menuItems[i]._id = menuItemId
    THEN CHOOSE i \in 1..Len(menuItems) :
            /\ menuItems[i]._id = menuItemId
            /\ \A j \in 1..(i - 1) : menuItems[j]._id # menuItemId
    ELSE 0

\* LineItem with the cart's name and the price left in major units.
LineItemFromCart(menuItem, cartItem) ==
    [unit_amount |-> menuItem.price,
     name |-> cartItem.name,
     quantity |-> parseInt(cartItem.quantity)]

\* The line item of one resolved cart line.
LineItem(menuItem, cartItem) ==
    [unit_amount |-> menuItem.price * 100,
     name |-> menuItem.name,
     quantity |-> parseInt(cartItem.quantity)]

\* createLineItems that drops the cart lines on no menu item.
createLineItemsSkipping(cartItems, menuItems) ==
    LET known == SelectSeq(cartItems,
                    LAMBDA c : FindMenuItem(menuItems, c.menuItemId) # 0)
    IN  [threw |-> FALSE,
         items |-> [i \in 1..Len(known) |->
                       LineItem(menuItems[FindMenuItem(menuItems, known[i].menuItemId)],
                                known[i])]]

\* createLineItems: cartItems.map(...), which throws at the first cart line
\* whose menuItemId is on no menu item.
createLineItems(cartItems, menuItems) ==
    IF \E i \in 1..Len(cartItems) : FindMenuItem(menuItems, cartItems[i].menuItemId) = 0
    THEN [threw |-> TRUE, items |-> << >>]
    ELSE [threw |-> FALSE,
          items |-> [i \in 1..Len(cartItems) |->
                        LineItem(menuItems[FindMenuItem(menuItems, cartItems[i].menuItemId)],
                                 cartItems[i])]]

\* createSession: the body of STRIPE.checkout.sessions.create.
SessionRequest(lineItems, orderId, deliveryPrice, restaurantId) ==
    [line_items |-> lineItems,
     shipping_amount |-> deliveryPrice * 100,
     mode |-> "payment",
     orderId |-> orderId,
     restaurantId |-> restaurantId,
     result |-> "pending"]

\* ------------------------------------------------ createCheckoutSession
\* NewOrder that is created paid.
NewOrderPaid(restaurantId, userId, deliveryDetails, cartItems) ==
    [restaurant |-> restaurantId, user |-> userId, status |-> "paid",
     deliveryDetails |-> deliveryDetails, cartItems |-> cartItems,
     totalAmount |-> Unset]

\* new Order({...}): status "placed", the cart and the delivery details copied.
NewOrder(restaurantId, userId, deliveryDetails, cartItems) ==
    [restaurant |-> restaurantId, user |-> userId, status |-> "placed",
     deliveryDetails |-> deliveryDetails, cartItems |-> cartItems,
     totalAmount |-> Unset]

\* The catch block answers with error.raw.message.  A plain Error has no
\* raw, so reading raw.message throws inside the catch: the handler's promise
\* rejects and no response is sent.
Unhandled(r) == [r EXCEPT !.pc = "unhandled"]

\* From the request's arrival to the first gateway call: the restaurant
\* lookup, the order's construction, the line items.
createCheckoutSession(s, userId, restaurantId, cartItems, deliveryDetails) ==
    /\ Free(s)
    /\ LET r0 == [Idle EXCEPT !.kind = "checkout", !.userId = userId,
                              !.restaurantId = restaurantId, !.cartItems = cartItems]
       IN
       IF ~RestaurantExists(restaurantId)
       THEN /\ reqs' = Arrive(Unhandled(r0))
            /\ UNCHANGED <<orders, restaurants, calls, nextId>>
       ELSE LET restaurant == restaurants[restaurantId]
                newOrder == NewOrder(restaurantId, userId, deliveryDetails, cartItems)
                r1 == [r0 EXCEPT !.orderId = nextId, !.order = newOrder]
                lineItems == createLineItems(cartItems, restaurant.menuItems)
            IN  /\ nextId' = nextId + 1
                /\ IF lineItems.threw
                   THEN /\ reqs' = Arrive(Unhandled(r1))
                        /\ UNCHANGED calls
                   ELSE /\ calls' = Append(calls,
                               SessionRequest(lineItems.items, nextId,
                                              restaurant.deliveryPrice, restaurantId))
                        /\ reqs' = Arrive([r1 EXCEPT !.pc = "awaitSession",
                                                     !.call = Len(calls) + 1])
                /\ UNCHANGED <<orders, restaurants>>

\* The gateway's answer to the session-create call: a session with a url, a
\* session without one, or an error (a Stripe error, which carries raw.message).
GatewayOutcomes == {"url", "nourl", "throw"}

\* AfterSession without the check of session.url.
AfterSessionNoUrlCheck(r, outcome) ==
    CASE outcome = "throw" ->
           [r EXCEPT !.pc = "done", !.resp = Response(500, "error.raw.message")]
      [] OTHER -> [r EXCEPT !.pc = "awaitSave"]

\* AfterSession that returns the url to the caller before the order is
\* saved.
AfterSessionRespondFirst(r, outcome) ==
    CASE outcome = "throw" ->
           [r EXCEPT !.pc = "done", !.resp = Response(500, "error.raw.message")]
      [] outcome = "nourl" ->
           [r EXCEPT !.pc = "done",
                     !.resp = Response(500, "Error creating stripe session")]
      [] OTHER -> [r EXCEPT !.pc = "awaitSave",
                            !.resp = [code |-> 200, body |-> "", url |-> TRUE]]

\* The handler after the call: the catch block answers a Stripe error with
\* 500, a session without url is answered with 500, otherwise the order is
\* saved.
AfterSession(r, outcome) ==
    CASE outcome = "throw" ->
           [r EXCEPT !.pc = "done", !.resp = Response(500, "error.raw.message")]
      [] outcome = "nourl" ->
           [r EXCEPT !.pc = "done",
                     !.resp = Response(500, "Error creating stripe session")]
      [] OTHER -> [r EXCEPT !.pc = "awaitSave"]

createSessionReturns(s, outcome) ==
    /\ s \in DOMAIN reqs
    /\ reqs[s].kind = "checkout"
    /\ reqs[s].pc = "awaitSession"
    /\ calls' = [calls EXCEPT ![reqs[s].call].result = outcome]
    /\ reqs' = [reqs EXCEPT ![s] = AfterSession(@, outcome)]
    /\ UNCHANGED <<orders, restaurants, nextId>>

\* newOrder.save() commits, then res.json({ url: session.url }).
SaveNewOrder(r) == (reqs[r].orderId :> reqs[r].order) @@ orders

checkoutSaved(s) ==
    /\ s \in DOMAIN reqs
    /\ reqs[s].kind = "checkout"
    /\ reqs[s].pc = "awaitSave"
    /\ orders' = SaveNewOrder(s)
    /\ reqs' = [reqs EXCEPT ![s] =
          [@ EXCEPT !.pc = "done", !.saved = TRUE,
                    !.resp = [code |-> 200, body |-> "", url |-> TRUE]]]
    /\ UNCHANGED <<restaurants, calls, nextId>>

\* SaveStatus under an optimistic-concurrency check: it writes only while
\* the stored status is still the loaded one.
SaveStatusIfUnchanged(id, loaded, status) ==
    IF status # loaded.status /\ orders[id].status = loaded.status
    THEN [orders EXCEPT ![id].status = status]
    ELSE orders

\* ------------------------------------------------- document.save()
\* order.save() on a document loaded with findById: a mongoose document
\* tracks the paths assigned since it was loaded and save() writes those
\* paths only; a path assigned the value it was loaded with is not marked
\* modified, so it is not written.
SaveStatus(id, loaded, status) ==
    IF status # loaded.status THEN [orders EXCEPT ![id].status = status] ELSE orders

SaveTotalAmount(store, id, loaded, amount) ==
    IF Amount(amount) # loaded.totalAmount
    THEN [store EXCEPT ![id].totalAmount = Amount(amount)]
    ELSE store

\* ------------------------------------------------- stripeWebhookHandler
Completed == "checkout.session.completed"
EventTypes == {Completed, "payment_intent.succeeded"}

\* amount_total an event may report.
Amounts == {130000, 80000}

\* A webhook request: whether STRIPE.webhooks.constructEvent accepts its
\* signature, and the event its body carries.
Events ==
    [verified : BOOLEAN, type : EventTypes, orderId : OrderIds, amount_total : Amounts]

\* constructEvent that accepts every signature.
constructEventUnchecked(event) == TRUE

\* STRIPE.webhooks.constructEvent returns the event when the signature
\* matches the raw body and throws otherwise.
constructEvent(event) == event.verified

\* IsCompleted that takes every event type for a completed session.
IsCompletedAlways(event) == TRUE

IsCompleted(event) == event.type = Completed

\* From the request's arrival to the save: signature check, event type,
\* order lookup.
stripeWebhookHandler(s, event) ==
    /\ Free(s)
    /\ LET r0 == [Idle EXCEPT !.kind = "webhook", !.event = event]
       IN  reqs' = Arrive(
              IF ~constructEvent(event)
              THEN [r0 EXCEPT !.pc = "done", !.resp = Response(400, "Webhook error")]
              ELSE IF ~IsCompleted(event)
              THEN [r0 EXCEPT !.pc = "done", !.resp = Response(200, "")]
              ELSE IF ~OrderExists(event.orderId)
              THEN [r0 EXCEPT !.pc = "done", !.lookedUp = TRUE,
                              !.resp = Response(404, "Order not found")]
              ELSE [r0 EXCEPT !.pc = "awaitSave", !.lookedUp = TRUE, !.found = TRUE,
                              !.orderId = event.orderId,
                              !.order = orders[event.orderId]])
    /\ UNCHANGED <<orders, restaurants, calls, nextId>>

\* WebhookSave that adds the event's amount to the stored total.
WebhookSaveAdding(s) ==
    [orders EXCEPT ![reqs[s].orderId].status = "paid",
                   ![reqs[s].orderId].totalAmount =
                        Amount(@.val + reqs[s].event.amount_total)]

\* order.totalAmount = amount_total; order.status = "paid"; order.save()
\* commits, then res.status(200).send().
WebhookSave(s) ==
    SaveTotalAmount(SaveStatus(reqs[s].orderId, reqs[s].order, "paid"),
                    reqs[s].orderId, reqs[s].order, reqs[s].event.amount_total)

webhookSaved(s) ==
    /\ s \in DOMAIN reqs
    /\ reqs[s].kind = "webhook"
    /\ reqs[s].pc = "awaitSave"
    /\ orders' = WebhookSave(s)
    /\ reqs' = [reqs EXCEPT ![s] =
          [@ EXCEPT !.pc = "done", !.saved = TRUE, !.resp = Response(200, "")]]
    /\ UNCHANGED <<restaurants, calls, nextId>>

\* ---------------------------------------------------- updateOrderStatus
\* Values of the body's status field: any string is accepted.
Statuses == {"paid", "delivered"}

\* From the request's arrival to the restaurant lookup: the order lookup.
updateOrderStatus(s, userId, orderId, status) ==
    /\ Free(s)
    /\ LET r0 == [Idle EXCEPT !.kind = "update", !.userId = userId,
                              !.orderId = orderId, !.status = status,
                              !.lookedUp = TRUE]
       IN  reqs' = Arrive(
              IF ~OrderExists(orderId)
              THEN [r0 EXCEPT !.pc = "done", !.resp = Response(404, "order not found")]
              ELSE [r0 EXCEPT !.pc = "awaitRestaurant", !.found = TRUE,
                              !.order = orders[orderId]])
    /\ UNCHANGED <<orders, restaurants, calls, nextId>>

\* OwnerMismatch without the check.
OwnerMismatchNever(restaurantId, userId) == FALSE

\* OwnerMismatch that lets a missing restaurant through.
OwnerMismatchIfPresent(restaurantId, userId) ==
    RestaurantExists(restaurantId) /\ restaurants[restaurantId].user # userId

\* restaurant?.user?._id.toString() !== req.userId: true when the restaurant
\* is null, since undefined differs from every userId.
OwnerMismatch(restaurantId, userId) ==
    IF RestaurantExists(restaurantId)
    THEN restaurants[restaurantId].user # userId
    ELSE TRUE

\* After Restaurant.findById(order.restaurant): the ownership check.
updateOwnerCheck(s) ==
    /\ s \in DOMAIN reqs
    /\ reqs[s].kind = "update"
    /\ reqs[s].pc = "awaitRestaurant"
    /\ reqs' = [reqs EXCEPT ![s] =
          IF OwnerMismatch(reqs[s].order.restaurant, reqs[s].userId)
          THEN [@ EXCEPT !.pc = "done", !.resp = Response(401, "")]
          ELSE [@ EXCEPT !.pc = "awaitSave"]]
    /\ UNCHANGED <<orders, restaurants, calls, nextId>>

\* UpdateSave that writes the whole document as it was loaded, with the new
\* status.
UpdateSaveWholeDocument(s) ==
    [orders EXCEPT ![reqs[s].orderId] = [reqs[s].order EXCEPT !.status = reqs[s].status]]

\* order.status = status; order.save() commits, then res.status(200).json(order).
UpdateSave(s) == SaveStatus(reqs[s].orderId, reqs[s].order, reqs[s].status)

updateSaved(s) ==
    /\ s \in DOMAIN reqs
    /\ reqs[s].kind = "update"
    /\ reqs[s].pc = "awaitSave"
    /\ orders' = UpdateSave(s)
    /\ reqs' = [reqs EXCEPT ![s] =
          [@ EXCEPT !.pc = "done", !.saved = TRUE, !.resp = Response(200, "order")]]
    /\ UNCHANGED <<restaurants, calls, nextId>>

\* ------------------------------------------------------------------- spec
Init ==
    /\ orders = << >>
    /\ restaurants = InitialRestaurants
    /\ calls = << >>
    /\ nextId = 1
    /\ reqs = << >>

\* A handler in flight continues after its await.
Continue(s) ==
    \/ \E o \in GatewayOutcomes : createSessionReturns(s, o)
    \/ checkoutSaved(s)
    \/ webhookSaved(s)
    \/ updateOwnerCheck(s)
    \/ updateSaved(s)

\* Requests arrive, at most MaxRequests of them, and the handlers in flight
\* continue in any order.
Next ==
    \/ \E s \in Slots, u \in Customers, r \in RestaurantIds, c \in CheckoutCarts,
          d \in DeliveryDetails :
          Len(reqs) < MaxRequests /\ createCheckoutSession(s, u, r, c, d)
    \/ \E s \in Slots, e \in Events :
          Len(reqs) < MaxRequests /\ stripeWebhookHandler(s, e)
    \/ \E s \in Slots, u \in Users, o \in OrderIds, st \in Statuses :
          Len(reqs) < MaxRequests /\ updateOrderStatus(s, u, o, st)
    \/ \E s \in Slots : Continue(s)

Spec == Init /\ [][Next]_vars

\* One checkout request, with any identity, restaurant id and cart.
NextCheckout ==
    \/ \E u \in Users, r \in RestaurantIds, c \in Carts, d \in DeliveryDetails :
          reqs = << >> /\ createCheckoutSession(1, u, r, c, d)
    \/ \E o \in GatewayOutcomes : createSessionReturns(1, o)
    \/ checkoutSaved(1)

SpecCheckout == Init /\ [][NextCheckout]_vars

\* The handlers read whatever the database holds, and the database is not
\* written by this process alone.  SpecStore starts from a store holding one
\* placed order of restaurant "r1", with the Restaurant collection holding
\* "r1" or not, and runs the owner's status updates on it.
StoredOrder == NewOrder("r1", "u2", "d1", <<LinePizza, LineSoda>>)

InitStore ==
    /\ orders = (1 :> StoredOrder)
    /\ restaurants \in {InitialRestaurants, << >>}
    /\ calls = << >>
    /\ nextId = 2
    /\ reqs = << >>

NextStore ==
    \/ \E s \in Slots, u \in Users, o \in OrderIds, st \in Statuses :
          Len(reqs) < MaxRequests /\ updateOrderStatus(s, u, o, st)
    \/ \E s \in Slots : updateOwnerCheck(s)
    \/ \E s \in Slots : updateSaved(s)

SpecStore == InitStore /\ [][NextStore]_vars

\* ---------------------------------------------------- createMyRestaurant
\* The body of a create request: the restaurant's details.
RestaurantBodies == { [deliveryPrice |-> 300, menuItems |-> Menu1] }

\* Restaurant.findOne({ user: req.userId }): whether the collection holds a
\* restaurant of that user.
existingRestaurant(userId) ==
    \E r \in DOMAIN restaurants : restaurants[r].user = userId

\* new Restaurant(req.body) with restaurant.user = req.userId.
NewRestaurant(body, userId) ==
    [user |-> userId, deliveryPrice |-> body.deliveryPrice,
     menuItems |-> body.menuItems]

\* From the request's arrival to the image upload: the lookup of the user's
\* restaurant, answered 409 when there is one.
createMyRestaurant(s, userId, body) ==
    /\ Free(s)
    /\ LET r0 == [Idle EXCEPT !.kind = "createRestaurant", !.userId = userId,
                              !.body = body, !.lookedUp = TRUE]
       IN  reqs' = Arrive(
              IF existingRestaurant(userId)
              THEN [r0 EXCEPT !.pc = "done", !.found = TRUE,
                              !.resp = Response(409, "User restaurant already exists")]
              ELSE [r0 EXCEPT !.pc = "awaitUpload"])
    /\ UNCHANGED <<orders, restaurants, calls, nextId>>

\* What an awaited call to the image host or to the database may do: return,
\* or throw.
AwaitOutcomes == {"ok", "throw"}

\* uploadImage returns the url, or throws and the catch block answers 500.
uploadImageReturns(s, outcome) ==
    /\ s \in DOMAIN reqs
    /\ reqs[s].kind = "createRestaurant"
    /\ reqs[s].pc = "awaitUpload"
    /\ reqs' = [reqs EXCEPT ![s] =
          IF outcome = "throw"
          THEN [@ EXCEPT !.pc = "done", !.resp = Response(500, "Something went wrong")]
          ELSE [@ EXCEPT !.pc = "awaitSave"]]
    /\ UNCHANGED <<orders, restaurants, calls, nextId>>

\* restaurant.save() commits the new document under a fresh _id, then
\* res.status(201).send(restaurant); or it throws and the catch block answers
\* 500.
SaveNewRestaurant(s) ==
    (nextId :> NewRestaurant(reqs[s].body, reqs[s].userId))
       @@ restaurants

restaurantSaved(s, outcome) ==
    /\ s \in DOMAIN reqs
    /\ reqs[s].kind = "createRestaurant"
    /\ reqs[s].pc = "awaitSave"
    /\ IF outcome = "throw"
       THEN /\ reqs' = [reqs EXCEPT ![s] =
                  [@ EXCEPT !.pc = "done", !.resp = Response(500, "Something went wrong")]]
            /\ UNCHANGED <<restaurants, nextId>>
       ELSE /\ restaurants' = SaveNewRestaurant(s)
            /\ nextId' = nextId + 1
            /\ reqs' = [reqs EXCEPT ![s] =
                  [@ EXCEPT !.pc = "done", !.saved = TRUE,
                            !.resp = Response(201, "restaurant")]]
    /\ UNCHANGED <<orders, calls>>

\* The create requests of the users on an empty Restaurant collection, at
\* most MaxRequests of them, their handlers continuing in any order.
InitRestaurant ==
    /\ orders = << >>
    /\ restaurants = << >>
    /\ calls = << >>
    /\ nextId = 1
    /\ reqs = << >>

NextRestaurant ==
    \/ \E s \in Slots, u \in Users, b \in RestaurantBodies :
          Len(reqs) < MaxRequests /\ createMyRestaurant(s, u, b)
    \/ \E s \in Slots, o \in AwaitOutcomes : uploadImageReturns(s, o)
    \/ \E s \in Slots, o \in AwaitOutcomes : restaurantSaved(s, o)

SpecRestaurant == InitRestaurant /\ [][NextRestaurant]_vars

\* ----------------------------------------------------------------- claims
Requests == DOMAIN reqs
Checkouts == {s \in Requests : reqs[s].kind = "checkout"}
Webhooks == {s \in Requests : reqs[s].kind = "webhook"}
Updates == {s \in Requests : reqs[s].kind = "update"}

\* The gateway calls that carry order id `id` in their metadata.
CallsFor(id) == {k \in DOMAIN calls : calls[k].orderId = id}

\* C1: every persisted order has a gateway session that was created with a
\* url and carries the order's id in its metadata; a checkout whose gateway
\* call threw or returned no url has persisted nothing.
C1_NoOrderWithoutSession ==
    /\ \A id \in DOMAIN orders : \E k \in CallsFor(id) : calls[k].result = "url"
    /\ \A s \in Checkouts :
          (reqs[s].call # 0 /\ calls[reqs[s].call].result \in {"throw", "nourl"})
             => /\ ~reqs[s].saved
                /\ reqs[s].orderId \notin DOMAIN orders

\* A checkout failed at the gateway, answered 500, and another one persisted
\* its order.
C1_Witness ==
    /\ \E s \in Checkouts :
          /\ reqs[s].call # 0
          /\ calls[reqs[s].call].result \in {"throw", "nourl"}
          /\ reqs[s].resp.code = 500
    /\ DOMAIN orders # {}

\* Cart line i is on no menu item of the menu.
Unresolvable(cartItems, menuItems) ==
    \E i \in DOMAIN cartItems :
        \A j \in DOMAIN menuItems : menuItems[j]._id # cartItems[i].menuItemId

\* C2: a checkout whose cart has a line on no menu item of the resolved
\* restaurant, at any position, persists no order and sends nothing to the
\* gateway.
C2_UnresolvableCartNoEffect ==
    \A s \in Checkouts :
        (/\ RestaurantExists(reqs[s].restaurantId)
         /\ Unresolvable(reqs[s].cartItems, restaurants[reqs[s].restaurantId].menuItems))
           => /\ reqs[s].call = 0
              /\ ~reqs[s].saved
              /\ calls = << >>
              /\ orders = << >>

\* A two-line cart whose first line resolves and whose last does not has
\* been handled.
C2_Witness ==
    \E s \in Checkouts :
        /\ reqs[s].restaurantId = "r1"
        /\ reqs[s].cartItems = <<LinePizza, LineGhost>>
        /\ Finished(s)

\* C3: a checkout whose restaurant exists and whose cart resolves sends
\* exactly one session request, whose metadata orderId is the request's new
\* order id; when the gateway answered with a url, the handler ends having
\* persisted that order and returned the url; and the step that persists it
\* adds exactly that one order, in state placed, and changes no other order.
C3_State ==
    \A s \in Checkouts :
        (/\ RestaurantExists(reqs[s].restaurantId)
         /\ ~Unresolvable(reqs[s].cartItems, restaurants[reqs[s].restaurantId].menuItems))
           => /\ reqs[s].call # 0
              /\ CallsFor(reqs[s].orderId) = {reqs[s].call}
              /\ calls[reqs[s].call].restaurantId = reqs[s].restaurantId
              /\ calls[reqs[s].call].result = "url" =>
                    /\ reqs[s].pc \in {"awaitSave", "done"}
                    /\ reqs[s].pc = "done" =>
                          /\ reqs[s].saved
                          /\ reqs[s].resp.url
                          /\ reqs[s].orderId \in DOMAIN orders

C3_Step ==
    \A s \in Checkouts :
        (~reqs[s].saved /\ reqs'[s].saved)
           => /\ reqs[s].orderId \notin DOMAIN orders
              /\ DOMAIN orders' = DOMAIN orders \cup {reqs[s].orderId}
              /\ orders'[reqs[s].orderId].status = "placed"
              /\ orders'[reqs[s].orderId].restaurant = reqs[s].restaurantId
              /\ orders'[reqs[s].orderId].cartItems = reqs[s].cartItems
              /\ \A id \in DOMAIN orders : orders'[id] = orders[id]

C3_OneSessionOneOrder == []C3_State /\ [][C3_Step]_vars

\* A checkout returned the url with its order persisted while another order
\* was already there.
C3_Witness ==
    \E s \in Checkouts :
        /\ reqs[s].resp.url
        /\ reqs[s].orderId \in DOMAIN orders
        /\ Cardinality(DOMAIN orders) = 2

\* The integer a quantity string of the cart lines spells.
QuantityOf(str) ==
    CASE str = <<"2">> -> 2
      [] str = <<"1", "0">> -> 10
      [] str = <<"3", "x">> -> 3
      [] str = <<"1">> -> 1

\* C4: the session request of a checkout has one line item per cart line,
\* in cart order: unit_amount is 100 times the price of the menu item the
\* line names, the name is the menu item's, the quantity is the integer the
\* line's quantity string spells; the shipping amount is 100 times the
\* restaurant's deliveryPrice.  A Pizza (500) in quantity "2" with
\* deliveryPrice 300 gives 50000, 2 and 30000.
C4_LineItems ==
    \A s \in Checkouts :
        reqs[s].call # 0 =>
           LET g == calls[reqs[s].call]
               restaurant == restaurants[reqs[s].restaurantId]
               cart == reqs[s].cartItems
           IN  /\ Len(g.line_items) = Len(cart)
               /\ g.shipping_amount = restaurant.deliveryPrice * 100
               /\ \A i \in DOMAIN cart :
                     \E j \in DOMAIN restaurant.menuItems :
                        /\ restaurant.menuItems[j]._id = cart[i].menuItemId
                        /\ g.line_items[i].unit_amount = restaurant.menuItems[j].price * 100
                        /\ g.line_items[i].name = restaurant.menuItems[j].name
                        /\ ~g.line_items[i].quantity.nan
                        /\ g.line_items[i].quantity.val = QuantityOf(cart[i].quantity)
               /\ cart = <<LinePizza>> =>
                     /\ g.line_items[1].unit_amount = 50000
                     /\ g.line_items[1].quantity.val = 2
                     /\ g.shipping_amount = 30000

\* The session request of the cart <<Soda "10", Pizza "2">> has been sent.
C4_Witness ==
    \E s \in Checkouts :
        /\ reqs[s].call # 0
        /\ reqs[s].cartItems = <<LineSoda, LinePizza>>
        /\ calls[reqs[s].call].line_items[2].name = "Pizza"


\* The requests that arrive in this step.
Arriving == DOMAIN reqs' \ DOMAIN reqs

\* Request s saves in this step.
Saves(s) == s \in Requests /\ ~reqs[s].saved /\ reqs'[s].saved

\* C5: a delivery of a verified session-completed event, with no other
\* request changing the order's status or totalAmount between the handler's
\* lookup and its save, leaves the order paid with the event's amount_total as
\* totalAmount; it creates no order and changes nothing else; and a delivery
\* that finds the order already paid with that amount, as the replay of the
\* same event does, changes nothing at all.
C5_Delivery ==
    \A s \in Webhooks :
        Saves(s) =>
           LET id == reqs[s].event.orderId
               amount == Amount(reqs[s].event.amount_total)
           IN  /\ DOMAIN orders' = DOMAIN orders
               /\ \A o \in DOMAIN orders \ {id} : orders'[o] = orders[o]
               /\ orders'[id] = [orders[id] EXCEPT !.status = orders'[id].status,
                                                   !.totalAmount = orders'[id].totalAmount]
               /\ orders[id].status = reqs[s].order.status
                     => orders'[id].status = "paid"
               /\ orders[id].totalAmount = reqs[s].order.totalAmount
                     => orders'[id].totalAmount = amount
               /\ (orders[id].status = "paid" /\ orders[id].totalAmount = amount)
                     => orders' = orders

C5_ReplayIdempotent == [][C5_Delivery]_vars

\* The same verified session-completed event was delivered twice, both
\* deliveries saved, and the order is paid with the event's amount.
C5_Witness ==
    \E s \in Webhooks, t \in Webhooks :
        /\ s < t
        /\ reqs[s].event = reqs[t].event
        /\ reqs[s].saved /\ reqs[t].saved
        /\ reqs[t].order.status = "paid"
        /\ orders[reqs[s].orderId].status = "paid"
        /\ orders[reqs[s].orderId].totalAmount = Amount(reqs[s].event.amount_total)

\* The restaurant of the order that update request s loaded has an owner
\* other than the request's identity.
NotOwner(s) ==
    /\ reqs[s].order.restaurant \in DOMAIN restaurants
    /\ restaurants[reqs[s].order.restaurant].user # reqs[s].userId

\* C6: an update request by an identity that does not own the order's
\* restaurant is answered 401 and writes nothing: the order is as it was.
C6_State ==
    \A s \in Updates :
        (reqs[s].found /\ NotOwner(s)) =>
           /\ ~reqs[s].saved
           /\ reqs[s].pc \in {"awaitRestaurant", "done"}
           /\ reqs[s].pc = "done" => reqs[s].resp.code = 401

C6_Step ==
    \A s \in Updates :
        (reqs[s].found /\ NotOwner(s) /\ reqs'[s] # reqs[s]) => orders' = orders

C6_NonOwnerRejected == []C6_State /\ [][C6_Step]_vars

\* A non-owner's update of a persisted order was answered 401.
C6_Witness ==
    \E s \in Updates :
        /\ reqs[s].found
        /\ NotOwner(s)
        /\ reqs[s].resp.code = 401
        /\ reqs[s].orderId \in DOMAIN orders

\* Order id goes from placed to paid in this step.
PlacedToPaid(id) ==
    /\ id \in DOMAIN orders
    /\ orders[id].status = "placed"
    /\ orders'[id].status = "paid"

\* The step is the save of a webhook request whose event passed the
\* signature check, has the session-completed type and names order id.
ByVerifiedCompletion(id) ==
    \E s \in Webhooks :
        /\ Saves(s)
        /\ reqs[s].event.verified
        /\ reqs[s].event.type = Completed
        /\ reqs[s].event.orderId = id

\* The step is the save of an update request of the restaurant's owner that
\* sets the status paid on order id.
ByOwnerUpdate(id) ==
    \E s \in Updates :
        /\ Saves(s)
        /\ reqs[s].orderId = id
        /\ reqs[s].status = "paid"
        /\ orders[id].restaurant \in DOMAIN restaurants
        /\ restaurants[orders[id].restaurant].user = reqs[s].userId

\* C7 (as claimed): an order goes from placed to paid only by the save of a
\* verified session-completed webhook event.
C7_OnlyByWebhook ==
    [][\A id \in DOMAIN orders : PlacedToPaid(id) => ByVerifiedCompletion(id)]_vars

\* C7 (amended): an order goes from placed to paid only by the save of a
\* verified session-completed webhook event naming it, or by a status update
\* of the restaurant's owner whose new status is paid.
C7_OnlyByWebhookOrOwner ==
    [][\A id \in DOMAIN orders :
          PlacedToPaid(id) => (ByVerifiedCompletion(id) \/ ByOwnerUpdate(id))]_vars

\* A verified completion event found its order placed and left it paid.
C7_Witness ==
    \E s \in Webhooks :
        /\ reqs[s].saved
        /\ reqs[s].order.status = "placed"
        /\ orders[reqs[s].orderId].status = "paid"

\* Webhook request s carries a verified event of another type.
VerifiedOther(r) ==
    r.kind = "webhook" /\ r.event.verified /\ r.event.type # Completed

\* C8: a verified event of a type other than session-completed is answered
\* 200 at once, and no order is changed.
C8_State ==
    \A s \in Requests :
        VerifiedOther(reqs[s]) =>
           /\ reqs[s].pc = "done"
           /\ reqs[s].resp.code = 200
           /\ ~reqs[s].saved

C8_Step ==
    \A s \in Arriving : VerifiedOther(reqs'[s]) => orders' = orders

C8_OtherEventNoChange == []C8_State /\ [][C8_Step]_vars

\* A verified event of another type, naming a persisted order, was answered
\* 200 and the order is still placed.
C8_Witness ==
    \E s \in Requests :
        /\ VerifiedOther(reqs[s])
        /\ reqs[s].resp.code = 200
        /\ reqs[s].event.orderId \in DOMAIN orders
        /\ orders[reqs[s].event.orderId].status = "placed"

\* Webhook request r failed the signature check.
BadSignature(r) == r.kind = "webhook" /\ ~r.event.verified

\* C9: a webhook request whose signature check fails is answered 400, looks
\* up no order and changes none, whatever its body says.
C9_State ==
    \A s \in Requests :
        BadSignature(reqs[s]) =>
           /\ reqs[s].pc = "done"
           /\ reqs[s].resp.code = 400
           /\ ~reqs[s].lookedUp
           /\ ~reqs[s].saved

C9_Step ==
    \A s \in Arriving : BadSignature(reqs'[s]) => orders' = orders

C9_BadSignatureRejected == []C9_State /\ [][C9_Step]_vars

\* A request with a bad signature and a session-completed body naming a
\* persisted, placed order was answered 400 and the order is still placed.
C9_Witness ==
    \E s \in Requests :
        /\ BadSignature(reqs[s])
        /\ reqs[s].event.type = Completed
        /\ reqs[s].resp.code = 400
        /\ reqs[s].event.orderId \in DOMAIN orders
        /\ orders[reqs[s].event.orderId].status = "placed"

\* The order that update request s loaded names a restaurant that is not in
\* the Restaurant collection.
RestaurantMissing(s) == reqs[s].order.restaurant \notin DOMAIN restaurants

\* An update request that arrives names an order id that resolves exactly
\* when the request found its order, and an id that does not resolve is
\* answered 404.
C10_Lookup ==
    \A s \in Arriving :
        reqs'[s].kind = "update" =>
           /\ reqs'[s].found <=> reqs'[s].orderId \in DOMAIN orders
           /\ ~reqs'[s].found => (reqs'[s].pc = "done" /\ reqs'[s].resp.code = 404)

\* A step of an update request that ends it with 404 or 401 changes no order.
C10_Frame ==
    \A s \in Updates \cup Arriving :
        (/\ reqs'[s].kind = "update"
         /\ reqs'[s].resp.code \in {404, 401}
         /\ (s \in Arriving \/ reqs'[s] # reqs[s]))
           => orders' = orders

C10_State ==
    \A s \in Updates :
        /\ reqs[s].resp.code = 404 <=> ~reqs[s].found
        /\ (reqs[s].found /\ reqs[s].pc = "done" /\ (RestaurantMissing(s) \/ NotOwner(s)))
              => reqs[s].resp.code = 401
        /\ reqs[s].resp.code = 401
              => (reqs[s].found /\ (RestaurantMissing(s) \/ NotOwner(s)))
        /\ reqs[s].resp.code \in {404, 401} => ~reqs[s].saved

HandledCompletion(id) ==
    {s \in Webhooks : /\ reqs[s].saved
                      /\ reqs[s].event.verified
                      /\ reqs[s].event.type = Completed
                      /\ reqs[s].event.orderId = id}

\* Request s takes a step: it arrives or its handler continues.
Steps(s) == s \in Arriving \/ (s \in Requests /\ reqs'[s] # reqs[s])

\* An order's totalAmount is set only if a verified session-completed event
\* naming the order has been handled, and its value is the amount_total of
\* such an event.
C11_State ==
    \A id \in DOMAIN orders :
        orders[id].totalAmount.set =>
           \E s \in HandledCompletion(id) :
               orders[id].totalAmount = Amount(reqs[s].event.amount_total)

\* An order is created with totalAmount unset.  A step that changes an
\* order's totalAmount is the save of a verified session-completed event
\* naming the order and sets it to that event's amount_total, so the value is
\* at all times that of the event whose handling wrote it last; and the save
\* of such an event that finds totalAmount as its handler loaded it leaves the
\* event's amount_total there.  No step of a checkout request or of a status
\* update changes any order's totalAmount.
C11_Step ==
    /\ DOMAIN orders \subseteq DOMAIN orders'
    /\ \A id \in DOMAIN orders' \ DOMAIN orders : orders'[id].totalAmount = Unset
    /\ \A id \in DOMAIN orders :
          orders'[id].totalAmount # orders[id].totalAmount =>
             /\ ByVerifiedCompletion(id)
             /\ \E s \in Webhooks :
                   /\ Saves(s)
                   /\ reqs[s].event.orderId = id
                   /\ orders'[id].totalAmount = Amount(reqs[s].event.amount_total)
    /\ \A s \in Webhooks :
          (Saves(s) /\ orders[reqs[s].orderId].totalAmount = reqs[s].order.totalAmount)
             => orders'[reqs[s].orderId].totalAmount = Amount(reqs[s].event.amount_total)
    /\ \A s \in Requests \cup Arriving :
          (Steps(s) /\ reqs'[s].kind \in {"checkout", "update"})
             => \A id \in DOMAIN orders : orders'[id].totalAmount = orders[id].totalAmount

Answered(s) == reqs[s].resp.code # 0

\* Request s has been answered with an error status and a JSON body carrying
\* a message.
AnsweredWithMessage(s) == reqs[s].resp.code >= 400 /\ reqs[s].resp.body # ""

\* C12: every createCheckoutSession request ends with a response: a request
\* whose restaurant id resolves to no restaurant ends with a 404 response
\* carrying a message, a request with a cart line on no menu item ends with
\* an error response carrying a message, and no request ends unanswered.
C12_EveryCheckoutAnswered ==
    \A s \in Checkouts :
        Finished(s) =>
           /\ Answered(s)
           /\ ~RestaurantExists(reqs[s].restaurantId)
                 => (reqs[s].resp.code = 404 /\ AnsweredWithMessage(s))
           /\ (/\ RestaurantExists(reqs[s].restaurantId)
               /\ Unresolvable(reqs[s].cartItems,
                               restaurants[reqs[s].restaurantId].menuItems))
                 => AnsweredWithMessage(s)

\* Update request s is authorized: the order it loaded names a restaurant
\* whose owner is the request's identity.
Authorized(s) ==
    /\ reqs[s].found
    /\ reqs[s].order.restaurant \in DOMAIN restaurants
    /\ restaurants[reqs[s].order.restaurant].user = reqs[s].userId

\* An authorized update is never rejected, whatever other requests do: it
\* ends with 200, having saved.
C13_BothSucceed ==
    \A s \in Updates :
        Authorized(s) =>
           /\ reqs[s].resp.code \in {0, 200}
           /\ reqs[s].pc = "done" => (reqs[s].resp.code = 200 /\ reqs[s].saved)

\* The save of an update leaves the order with that update's status.
C13_SaveWrites ==
    \A s \in Updates :
        Saves(s) => orders'[reqs[s].orderId].status = reqs[s].status

\* C13 (as claimed): concurrent authorized updates of one order all succeed,
\* and after each save the persisted status is the one of the request that
\* saved, so that the final status is that of the save that executed last.
C13_LastSaveWins == []C13_BothSucceed /\ [][C13_SaveWrites]_vars

\* The save of an update whose new status differs from the status its
\* handler loaded writes the new status over whatever is stored; the save of
\* an update whose new status is the status its handler loaded writes
\* nothing; either way the order then has its former status or the update's
\* status, nothing else of the order changes and no other order changes.
C13_SaveStep ==
    \A s \in Updates :
        Saves(s) =>
           LET id == reqs[s].orderId
           IN  /\ reqs[s].status # reqs[s].order.status
                     => orders'[id].status = reqs[s].status
               /\ reqs[s].status = reqs[s].order.status => orders' = orders
               /\ orders'[id].status \in {orders[id].status, reqs[s].status}
               /\ orders' = [orders EXCEPT ![id].status = orders'[id].status]

\* C13 (amended): concurrent authorized updates of one order all succeed
\* under every interleaving; the final status is that of the last save whose
\* new status differed from the status its handler had loaded (a save that
\* re-asserts the loaded status writes nothing), and no third status results.
C13_LastChangingSaveWins == []C13_BothSucceed /\ [][C13_SaveStep]_vars

\* Two authorized updates with different new statuses both loaded the order
\* as placed and both saved and were answered 200; a third one, whose new
\* status is the status it loaded, saved too, and the order has another
\* status than the third one's.
C13_Witness ==
    \E s \in Updates, t \in Updates, u \in Updates :
        /\ \A x \in {s, t, u} :
              Authorized(x) /\ reqs[x].saved /\ reqs[x].resp.code = 200
                 /\ reqs[x].orderId = 1
        /\ reqs[s].order.status = "placed" /\ reqs[t].order.status = "placed"
        /\ reqs[s].status # reqs[t].status
        /\ reqs[u].status = reqs[u].order.status
        /\ orders[1].status # reqs[u].status

\* Checkout request s has returned the redirect url to its caller.
UrlReturned(s) == reqs[s].kind = "checkout" /\ reqs[s].resp.url

\* The gateway has created, with a url, the session that checkout request s
\* asked for, with the request's order id in its metadata.
SessionCreated(s) ==
    /\ reqs[s].call # 0
    /\ calls[reqs[s].call].result = "url"
    /\ calls[reqs[s].call].orderId = reqs[s].orderId

\* A checkout that has persisted its order had its session created, and a
\* checkout that has returned the url has persisted its order: the order is
\* in the collection.
C14_State ==
    \A s \in Checkouts :
        /\ reqs[s].saved => SessionCreated(s)
        /\ UrlReturned(s) => (reqs[s].saved /\ reqs[s].orderId \in DOMAIN orders)

\* The step that persists the order of a checkout comes after the session's
\* creation; the step that returns the url leaves the order persisted in
\* state placed; and a verified session-completed event that arrives when
\* the checkout of the order it names has returned the url finds the order
\* and is not answered 404.
C14_Step ==
    /\ \A s \in Checkouts :
          /\ Saves(s) => SessionCreated(s)
          /\ (~UrlReturned(s) /\ reqs'[s].resp.url)
                => /\ reqs[s].orderId \in DOMAIN orders'
                   /\ orders'[reqs[s].orderId].status = "placed"
    /\ \A w \in Arriving :
          (/\ reqs'[w].kind = "webhook"
           /\ reqs'[w].event.verified
           /\ reqs'[w].event.type = Completed
           /\ \E s \in Checkouts :
                 UrlReturned(s) /\ reqs[s].orderId = reqs'[w].event.orderId)
             => /\ reqs'[w].found
                /\ reqs'[w].resp.code # 404

\* C14: createCheckoutSession creates the gateway session, then persists the
\* order, then returns the url; once the url has been returned the order
\* named in the session's metadata is persisted, in state placed at that
\* moment, and a verified session-completed event delivered afterwards
\* always finds it.
C14_OrderPersistedBeforeUrl == []C14_State /\ [][C14_Step]_vars

\* A verified session-completed event arrived after the checkout of its
\* order had returned the url, found the order placed and saved it paid.
C14_Witness ==
    \E s \in Checkouts, w \in Webhooks :
        /\ s < w
        /\ UrlReturned(s)
        /\ reqs[w].event.verified
        /\ reqs[w].event.type = Completed
        /\ reqs[w].event.orderId = reqs[s].orderId
        /\ reqs[w].found
        /\ reqs[w].order.status = "placed"
        /\ reqs[w].saved

CreateRequests == {s \in Requests : reqs[s].kind = "createRestaurant"}

\* The restaurants of the collection that user u owns.
RestaurantsOf(u) == {r \in DOMAIN restaurants : restaurants[r].user = u}

\* Each user owns at most one restaurant.
C15_AtMostOne == \A u \in Users : Cardinality(RestaurantsOf(u)) <= 1

\* A create request of a user who has a restaurant is answered 409 when it
\* arrives, and no step of a create request of such a user adds a restaurant.
C15_Rejected ==
    /\ \A s \in Arriving :
          (reqs'[s].kind = "createRestaurant" /\ RestaurantsOf(reqs'[s].userId) # {})
             => (reqs'[s].resp.code = 409 /\ restaurants' = restaurants)
    /\ \A s \in CreateRequests :
          (reqs'[s] # reqs[s] /\ RestaurantsOf(reqs[s].userId) # {})
             => restaurants' = restaurants

\* C15: after any sequence of createMyRestaurant requests, interleaved in any
\* way, each user owns at most one restaurant, and a request of a user who
\* already has a restaurant is answered 409 and creates nothing.
C15_OneRestaurantPerUser == []C15_AtMostOne /\ [][C15_Rejected]_vars

====
